---- MODULE Spec2Model ----
(***************************************************************************)
(* Model of Tools/build_hanja_db.py: the line parser parse_hanja_line, the *)
(* database builder build_database, the downloader download_hanja_txt and  *)
(* the command-line driver main.                                           *)
(*                                                                         *)
(* A text is a sequence of one-character strings.  A parsed entry is the   *)
(* triple <<hangul, hanja, meaning>> of texts; Python's None is the empty  *)
(* tuple.  A file is a record with a kind: "absent", "text" or "db".       *)
(***************************************************************************)
EXTENDS Integers, Sequences, FiniteSets

VARIABLES
    line,            \* SpecParse: the argument of parse_hanja_line
    parsed,          \* SpecParse: TRUE once parse_hanja_line has returned
    result,          \* SpecParse: the value parse_hanja_line returned
    pc,              \* position of the process inside main / build_database
    input_path,      \* main's input_path: "none", or a path
    should_cleanup,  \* main's should_cleanup
    fs,              \* the file system: path -> file
    txn,             \* rows inserted on the connection and not yet committed
    count,           \* build_database's count
    pos,             \* number of lines the `for line in f` loop has yielded
    exc,             \* the exception propagating, "none" if none
    old,             \* the file found at output_path when build_database began
    runs             \* number of times main has been started

vars == <<line, parsed, result, pc, input_path, should_cleanup, fs, txn,
          count, pos, exc, old, runs>>

parseVars == <<line, parsed, result>>
mainVars == <<pc, input_path, should_cleanup, fs, txn, count, pos, exc, old, runs>>

----------------------------------------------------------------------------
(* Bounds *)

MaxLineLen == 6
MaxLines == 2
MaxRuns == 2

----------------------------------------------------------------------------
(* Texts *)

None == <<>>

Whitespace == {" ", "\n", "\t"}

Alphabet == {" ", "\n", "#", ":", "a"}

RECURSIVE lstrip(_)
lstrip(s) ==
    IF s # <<>> /\ Head(s) \in Whitespace THEN lstrip(Tail(s)) ELSE s

RECURSIVE rstrip(_)
rstrip(s) ==
    IF s # <<>> /\ s[Len(s)] \in Whitespace
    THEN rstrip(SubSeq(s, 1, Len(s) - 1))
    ELSE s

strip(s) == rstrip(lstrip(s))

startswith(s, c) == s # <<>> /\ Head(s) = c

\* s.split(sep): the fields between the separators, empty fields kept.
RECURSIVE split(_, _)
split(s, sep) ==
    IF \A i \in 1..Len(s) : s[i] # sep
    THEN <<s>>
    ELSE LET k == CHOOSE i \in 1..Len(s) :
                      s[i] = sep /\ \A j \in 1..(i - 1) : s[j] # sep
         IN  <<SubSeq(s, 1, k - 1)>> \o split(SubSeq(s, k + 1, Len(s)), sep)

parse_hanja_line_nocomment(l) ==
    LET s == strip(l)
        parts == split(s, ":")
    IN  IF s = <<>>
        THEN None
        ELSE IF Len(parts) < 3
        THEN None
        ELSE IF strip(parts[1]) = <<>> \/ strip(parts[2]) = <<>>
        THEN None
        ELSE <<strip(parts[1]), strip(parts[2]), strip(parts[3])>>

parse_hanja_line_rawmeaning(l) ==
    LET s == strip(l)
        parts == split(s, ":")
    IN  IF s = <<>> \/ startswith(s, "#")
        THEN None
        ELSE IF Len(parts) < 3
        THEN None
        ELSE IF strip(parts[1]) = <<>> \/ strip(parts[2]) = <<>>
        THEN None
        ELSE <<strip(parts[1]), strip(parts[2]), parts[3]>>

parse_hanja_line(l) ==
    LET s == strip(l)
        parts == split(s, ":")
    IN  IF s = <<>> \/ startswith(s, "#")
        THEN None
        ELSE IF Len(parts) < 3
        THEN None
        ELSE IF strip(parts[1]) = <<>> \/ strip(parts[2]) = <<>>
        THEN None
        ELSE <<strip(parts[1]), strip(parts[2]), strip(parts[3])>>

----------------------------------------------------------------------------
(* SpecParse: parse_hanja_line applied to every line over Alphabet of      *)
(* length at most MaxLineLen.                                              *)

\* The texts over Alphabet that are n characters long.
TextsOfLen(n) == [1..n -> Alphabet]

NoFile == [kind |-> "absent", lines |-> <<>>, readable |-> FALSE, bad |-> -1,
           rows |-> {}, indexed |-> FALSE]

Paths == {"in", "out", "tmp"}

MainIdle ==
    /\ pc = "idle"
    /\ input_path = "none"
    /\ should_cleanup = FALSE
    /\ fs = [p \in Paths |-> NoFile]
    /\ txn = {}
    /\ count = 0
    /\ pos = 0
    /\ exc = "none"
    /\ old = NoFile
    /\ runs = 0

InitParse ==
    /\ \E n \in 0..MaxLineLen : line \in TextsOfLen(n)
    /\ parsed = FALSE
    /\ result = None
    /\ MainIdle

ParseLine ==
    /\ ~parsed
    /\ result' = parse_hanja_line(line)
    /\ parsed' = TRUE
    /\ UNCHANGED <<line, mainVars>>

NextParse == ParseLine

SpecParse == InitParse /\ [][NextParse]_vars

----------------------------------------------------------------------------
(* Spec: main, download_hanja_txt and build_database, run MaxRuns times    *)
(* against one file system.                                                *)

\* Lines of the dictionary sources the builds read (without the newline).
SampleLines ==
    { <<"a", ":", "b", ":", "c">>,
      <<"a", ":", "c", ":">>,
      <<"b", ":", "b", ":", " ", "c">>,
      <<"#", "a", ":", "b", ":", "c">> }

\* The five-line end-to-end source, each word abbreviated to one letter:
\* G = the first hangul, N = the second hangul.
E2ELines ==
    << <<"G", ":", "f", ":", "x", " ", "y">>,
       <<"#", " ", "c">>,
       <<"G", ":", "h", ":", "l">>,
       <<"m", " ", "l">>,
       <<"N", ":", "n", ":", "t">> >>

SourcesOfLen(n) == [1..n -> SampleLines]

Sources == UNION {SourcesOfLen(n) : n \in 0..MaxLines} \cup {E2ELines}

\* A UTF-8 text file.  bad = k >= 0: the decoder fails after the loop has
\* been handed k lines; bad = -1: the whole file decodes.
TextFile(ls, r, b) ==
    [kind |-> "text", lines |-> ls, readable |-> r, bad |-> b,
     rows |-> {}, indexed |-> FALSE]

\* An SQLite file holding table hanja with the committed rows rs.
DbFile(rs, ix) ==
    [kind |-> "db", lines |-> <<>>, readable |-> TRUE, bad |-> -1,
     rows |-> rs, indexed |-> ix]

\* What may lie at the path given on the command line: nothing, a file that
\* cannot be opened, or a text that decodes fully or up to some line.
GivenFiles ==
    {NoFile}
    \cup {TextFile(ls, FALSE, -1) : ls \in Sources}
    \cup UNION {{TextFile(ls, TRUE, b) : b \in -1..Len(ls)} : ls \in Sources}

\* What the remote URL may deliver.
RemoteFiles ==
    UNION {{TextFile(ls, TRUE, b) : b \in -1..Len(ls)} : ls \in Sources}

OutPath == "out"

exists(p) == fs[p].kind # "absent"

\* id INTEGER PRIMARY KEY AUTOINCREMENT: one more than the largest id.
NextRowId_desc(view) == 100 - Cardinality(view)

NextRowId(view) ==
    IF view = {} THEN 1
    ELSE 1 + (CHOOSE m \in {r.id : r \in view} : \A r \in view : r.id <= m)

\* INSERT INTO hanja (hangul, hanja, meaning, frequency) VALUES (?, ?, ?, 0)
NewRecord_freq(view, entry) ==
    [id |-> NextRowId(view), hangul |-> entry[1], hanja |-> entry[2],
     meaning |-> entry[3], frequency |-> NextRowId(view)]

NewRecord_swapped(view, entry) ==
    [id |-> NextRowId(view), hangul |-> entry[2], hanja |-> entry[1],
     meaning |-> entry[3], frequency |-> 0]

NewRecord(view, entry) ==
    [id |-> NextRowId(view), hangul |-> entry[1], hanja |-> entry[2],
     meaning |-> entry[3], frequency |-> 0]

\* cursor.execute(INSERT ...) on a connection that sees the committed rows
\* `table` and its own uncommitted rows `pending`: the new pending rows.
execute_insert_ignore(table, pending, entry) ==
    IF \E r \in table \cup pending : r.hangul = entry[1]
    THEN pending
    ELSE pending \cup {NewRecord(table \cup pending, entry)}

execute_insert(table, pending, entry) ==
    pending \cup {NewRecord(table \cup pending, entry)}

\* main's choice of should_cleanup from sys.argv[1].
ShouldCleanup_always(arg) == TRUE

ShouldCleanup(arg) == arg = "none"

Init ==
    /\ line = <<>>
    /\ parsed = FALSE
    /\ result = None
    /\ MainIdle

\* main, lines 90-101, with an input path on the command line.  The file
\* system the process meets holds any given file at that path, the artifact
\* of the earlier runs at the output path, and nothing at the other paths.
MainWithInput ==
    /\ pc \in {"idle", "exited"}
    /\ runs < MaxRuns
    /\ \E p \in {"in", OutPath}, f \in GivenFiles :
        /\ input_path' = p
        /\ should_cleanup' = ShouldCleanup(p)
        /\ fs' = [q \in Paths |->
                     IF q = p THEN f ELSE IF q = OutPath THEN fs[q] ELSE NoFile]
    /\ pc' = "remove"
    /\ runs' = runs + 1
    /\ txn' = {}
    /\ count' = 0
    /\ pos' = 0
    /\ exc' = "none"
    /\ old' = NoFile
    /\ UNCHANGED parseVars

\* main, lines 90-97, without an input path: download_hanja_txt is entered.
\* "tmp" stands for the fresh name NamedTemporaryFile will pick.
MainWithoutInput ==
    /\ pc \in {"idle", "exited"}
    /\ runs < MaxRuns
    /\ input_path' = "none"
    /\ should_cleanup' = FALSE
    /\ fs' = [q \in Paths |-> IF q = OutPath THEN fs[q] ELSE NoFile]
    /\ pc' = "mktemp"
    /\ runs' = runs + 1
    /\ txn' = {}
    /\ count' = 0
    /\ pos' = 0
    /\ exc' = "none"
    /\ old' = NoFile
    /\ UNCHANGED parseVars

\* download_hanja_txt, line 23: the temporary file is created, empty.
DownloadCreateTemp ==
    /\ pc = "mktemp"
    /\ fs' = [fs EXCEPT !["tmp"] = TextFile(<<>>, TRUE, -1)]
    /\ pc' = "fetch"
    /\ UNCHANGED <<parseVars, input_path, should_cleanup, txn, count, pos,
                   exc, old, runs>>

\* download_hanja_txt, lines 24-26, and main, lines 98-99: the fetch
\* succeeds and main takes the temporary name as input_path.
DownloadFetch ==
    /\ pc = "fetch"
    /\ \E f \in RemoteFiles : fs' = [fs EXCEPT !["tmp"] = f]
    /\ input_path' = "tmp"
    /\ should_cleanup' = ShouldCleanup("none")
    /\ pc' = "remove"
    /\ UNCHANGED <<parseVars, txn, count, pos, exc, old, runs>>

\* download_hanja_txt, line 24: urlretrieve raises.  The call is outside
\* main's try, so the exception ends the process.
DownloadFetchFails ==
    /\ pc = "fetch"
    /\ exc' = "URLError"
    /\ pc' = "exited"
    /\ UNCHANGED <<parseVars, input_path, should_cleanup, fs, txn, count,
                   pos, old, runs>>

\* build_database, lines 50-51.
BuildRemove ==
    /\ pc = "remove"
    /\ old' = fs[OutPath]
    /\ fs' = IF exists(OutPath) THEN [fs EXCEPT ![OutPath] = NoFile] ELSE fs
    /\ pc' = "create_table"
    /\ UNCHANGED <<parseVars, input_path, should_cleanup, txn, count, pos,
                   exc, runs>>

\* build_database, lines 53-65: connect and CREATE TABLE.  sqlite3 opens
\* no transaction for DDL, so the file now holds the empty table.
BuildCreateTable ==
    /\ pc = "create_table"
    /\ fs' = [fs EXCEPT ![OutPath] = DbFile({}, FALSE)]
    /\ pc' = "create_index"
    /\ UNCHANGED <<parseVars, input_path, should_cleanup, txn, count, pos,
                   exc, old, runs>>

\* build_database, lines 68-71: CREATE INDEX, count = 0.
BuildCreateIndex ==
    /\ pc = "create_index"
    /\ fs' = [fs EXCEPT ![OutPath] = DbFile(fs[OutPath].rows, TRUE)]
    /\ count' = 0
    /\ pc' = "open"
    /\ UNCHANGED <<parseVars, input_path, should_cleanup, txn, pos, exc,
                   old, runs>>

\* build_database, line 72: open(input_path).
BuildOpen ==
    /\ pc = "open"
    /\ IF ~exists(input_path)
       THEN exc' = "FileNotFoundError" /\ pc' = "finally"
       ELSE IF ~fs[input_path].readable
       THEN exc' = "PermissionError" /\ pc' = "finally"
       ELSE exc' = exc /\ pc' = "read"
    /\ pos' = 0
    /\ UNCHANGED <<parseVars, input_path, should_cleanup, fs, txn, count,
                   old, runs>>

\* The decoder fails here: on the bad bytes of a text, or at once on a
\* file that is an SQLite database.
DecodeFails == fs[input_path].kind = "db" \/ pos = fs[input_path].bad

\* build_database, lines 73-80: one turn of the loop.
BuildReadLine ==
    /\ pc = "read"
    /\ ~DecodeFails
    /\ pos < Len(fs[input_path].lines)
    /\ LET entry == parse_hanja_line(fs[input_path].lines[pos + 1] \o <<"\n">>)
       IN  IF entry # None
           THEN /\ txn' = execute_insert(fs[OutPath].rows, txn, entry)
                /\ count' = count + 1
           ELSE UNCHANGED <<txn, count>>
    /\ pos' = pos + 1
    /\ UNCHANGED <<parseVars, pc, input_path, should_cleanup, fs, exc, old,
                   runs>>

\* build_database, line 73: reading raises UnicodeDecodeError.
BuildDecodeError ==
    /\ pc = "read"
    /\ DecodeFails
    /\ exc' = "UnicodeDecodeError"
    /\ pc' = "finally"
    /\ UNCHANGED <<parseVars, input_path, should_cleanup, fs, txn, count,
                   pos, old, runs>>

\* build_database, lines 82-83: the loop is over; commit and close.
BuildCommit ==
    /\ pc = "read"
    /\ ~DecodeFails
    /\ pos = Len(fs[input_path].lines)
    /\ fs' = [fs EXCEPT ![OutPath] =
                 DbFile(fs[OutPath].rows \cup txn, fs[OutPath].indexed)]
    /\ txn' = {}
    /\ pc' = "report"
    /\ UNCHANGED <<parseVars, input_path, should_cleanup, count, pos, exc,
                   old, runs>>

\* build_database, lines 85-88: size and summary; the function returns.
BuildReport ==
    /\ pc = "report"
    /\ pc' = "finally"
    /\ UNCHANGED <<parseVars, input_path, should_cleanup, fs, txn, count,
                   pos, exc, old, runs>>

\* main, lines 105-107, and the end of the process: a connection left open
\* by an exception is dropped with its uncommitted rows, and the locals of
\* build_database are gone.  input_path and exc stay as the record of the
\* command line and of the way the process ended.
MainFinally ==
    /\ pc = "finally"
    /\ fs' = IF should_cleanup /\ exists(input_path)
             THEN [fs EXCEPT ![input_path] = NoFile]
             ELSE fs
    /\ txn' = {}
    /\ count' = 0
    /\ pos' = 0
    /\ old' = NoFile
    /\ pc' = "exited"
    /\ UNCHANGED <<parseVars, input_path, should_cleanup, exc, runs>>

Next ==
    \/ MainWithInput
    \/ MainWithoutInput
    \/ DownloadCreateTemp
    \/ DownloadFetch
    \/ DownloadFetchFails
    \/ BuildRemove
    \/ BuildCreateTable
    \/ BuildCreateIndex
    \/ BuildOpen
    \/ BuildReadLine
    \/ BuildDecodeError
    \/ BuildCommit
    \/ BuildReport
    \/ MainFinally

Spec == Init /\ [][Next]_vars

----------------------------------------------------------------------------
(* Properties of parse_hanja_line, stated on the raw line by positions.    *)

Colons(s) == {i \in 1..Len(s) : s[i] = ":"}

Inked(s) == {i \in 1..Len(s) : s[i] \notin Whitespace}

\* s without its leading and trailing whitespace.
Trim(s) ==
    IF Inked(s) = {} THEN <<>>
    ELSE LET lo == CHOOSE i \in Inked(s) : \A j \in Inked(s) : i <= j
             hi == CHOOSE i \in Inked(s) : \A j \in Inked(s) : j <= i
         IN  SubSeq(s, lo, hi)

FirstColon(s) == CHOOSE i \in Colons(s) : \A j \in Colons(s) : i <= j

SecondColon(s) ==
    CHOOSE i \in Colons(s) \ {FirstColon(s)} :
        \A j \in Colons(s) \ {FirstColon(s)} : i <= j

\* The parts of a line A:B:C that holds exactly two ':'.
PartA(s) == SubSeq(s, 1, FirstColon(s) - 1)
PartB(s) == SubSeq(s, FirstColon(s) + 1, SecondColon(s) - 1)
PartC(s) == SubSeq(s, SecondColon(s) + 1, Len(s))

IsABC(s) ==
    /\ Cardinality(Colons(s)) = 2
    /\ Trim(PartA(s)) # <<>>
    /\ Trim(PartB(s)) # <<>>

\* C1 as stated: every line A:B:C with non-empty trimmed A and B parses to
\* (trim(A), trim(B), trim(C)), also when A begins with '#'.
C1_Original ==
    (parsed /\ IsABC(line))
        => result = <<Trim(PartA(line)), Trim(PartB(line)), Trim(PartC(line))>>

\* C1 amended: every line A:B:C with non-empty trimmed A and B, whose
\* trimmed A does not begin with '#', parses to (trim(A), trim(B), trim(C));
\* when trimmed A begins with '#' the line is a comment and parses to None.
C1_Amended ==
    (parsed /\ IsABC(line))
        => IF Head(Trim(PartA(line))) = "#"
           THEN result = None
           ELSE result = <<Trim(PartA(line)), Trim(PartB(line)),
                           Trim(PartC(line))>>

C1_Witness ==
    /\ parsed
    /\ IsABC(line)
    /\ Head(Trim(PartA(line))) # "#"
    /\ PartC(line) # Trim(PartC(line))
    /\ Trim(PartC(line)) # <<>>
    /\ result # None

\* The lines the parser is to reject: empty after trimming, a comment,
\* fewer than 3 fields, or an empty field 0 or field 1 after trimming.
Rejected(l) ==
    LET s == Trim(l)
    IN  \/ s = <<>>
        \/ Head(s) = "#"
        \/ Cardinality(Colons(s)) < 2
        \/ Trim(PartA(s)) = <<>>
        \/ Trim(PartB(s)) = <<>>

\* C2: parse_hanja_line returns None exactly for the rejected lines.
C2_RejectIff == parsed => (result = None <=> Rejected(line))

C2_Witness ==
    /\ parsed
    /\ result = None
    /\ Trim(line) # <<>>
    /\ Head(Trim(line)) # "#"
    /\ Cardinality(Colons(line)) >= 2
    /\ Trim(PartB(Trim(line))) = <<>>

----------------------------------------------------------------------------
(* Properties of build_database and main.                                  *)

Artifact == fs[OutPath]

\* The lines of the source the build was given.
InputLines == IF input_path = "none" THEN <<>> ELSE fs[input_path].lines

\* The positions of the source lines that parse_hanja_line accepts.
AcceptedIdx ==
    {i \in 1..Len(InputLines) : parse_hanja_line(InputLines[i]) # None}

Entry(r) == <<r.hangul, r.hanja, r.meaning>>

\* build_database has committed and not raised.
Completed == pc \in {"report", "finally"} /\ exc = "none"

\* The artifact holds one record for every accepted line and no other.
HoldsInput ==
    /\ Artifact.kind = "db"
    /\ Cardinality(Artifact.rows) = Cardinality(AcceptedIdx)
    /\ \A r \in Artifact.rows :
           \E i \in AcceptedIdx : Entry(r) = parse_hanja_line(InputLines[i])
    /\ \A i \in AcceptedIdx :
           \E r \in Artifact.rows : Entry(r) = parse_hanja_line(InputLines[i])

\* C3: after a completed build the artifact holds exactly the M records of
\* the accepted lines of this build's input, whatever the N records of the
\* artifact that was at output_path before.
C3_Replace == Completed => HoldsInput

C3_Witness ==
    /\ Completed
    /\ old.kind = "db"
    /\ Cardinality(old.rows) > Cardinality(AcceptedIdx)
    /\ AcceptedIdx # {}
    /\ \E r \in old.rows :
           \A i \in AcceptedIdx : Entry(r) # parse_hanja_line(InputLines[i])

\* C4 as stated: when the input cannot be opened or decoded, no artifact is
\* at output_path once the process has ended.
C4_NoArtifactOnReadFailure ==
    (pc = "exited"
        /\ exc \in {"FileNotFoundError", "PermissionError", "UnicodeDecodeError"})
        => ~exists(OutPath)

\* C5 as stated: a run without an input path leaves no temporary download
\* file behind, on whichever path the process ends.
C5_TempRemoved ==
    (pc = "exited" /\ input_path \in {"none", "tmp"}) => ~exists("tmp")

\* C6 as stated: from the removal of the old artifact on, the artifact is
\* absent or holds the complete record set of the input.
C6_AtomicBatch ==
    pc \in {"create_table", "create_index", "open", "read", "report", "finally"}
        => (~exists(OutPath) \/ HoldsInput)

\* The consumer's query: the records whose hangul is h.
Lookup(h) == {r \in Artifact.rows : r.hangul = h}

Keys == {<<"a">>, <<"b">>, <<"c">>, <<"G">>, <<"N">>, <<"D">>}

LinesOf(e) ==
    {i \in 1..Len(InputLines) : parse_hanja_line(InputLines[i]) = e}

\* C7: after a completed build, a lookup of h returns, with multiplicity,
\* the entries of the accepted lines whose hangul is h and nothing else;
\* the five-line source gives 3 records, 2 for G, 1 for N, 0 for D.
C7_Lookup ==
    Completed =>
        /\ Artifact.indexed
        /\ \A h \in Keys :
            /\ \A r \in Lookup(h) : LinesOf(Entry(r)) # {}
            /\ \A i \in AcceptedIdx :
                   LET e == parse_hanja_line(InputLines[i])
                   IN  e[1] = h =>
                           Cardinality({r \in Lookup(h) : Entry(r) = e})
                               = Cardinality(LinesOf(e))
        /\ \A r \in Artifact.rows : r.hangul \in Keys
        /\ InputLines = E2ELines =>
               /\ Cardinality(Artifact.rows) = 3
               /\ Cardinality(Lookup(<<"G">>)) = 2
               /\ Cardinality(Lookup(<<"N">>)) = 1
               /\ Cardinality(Lookup(<<"D">>)) = 0

C7_Witness ==
    /\ Completed
    /\ InputLines = E2ELines
    /\ Cardinality(Lookup(<<"G">>)) = 2

\* C8: after a completed build ids are unique, and the record with the k-th
\* smallest id is the record of the k-th accepted line.
C8_IdOrder ==
    Completed =>
        /\ \A r1, r2 \in Artifact.rows : r1.id = r2.id => r1 = r2
        /\ Cardinality(Artifact.rows) = Cardinality(AcceptedIdx)
        /\ \A i \in AcceptedIdx :
               \E r \in Artifact.rows :
                   /\ Entry(r) = parse_hanja_line(InputLines[i])
                   /\ Cardinality({q \in Artifact.rows : q.id < r.id})
                          = Cardinality({j \in AcceptedIdx : j < i})

C8_Witness ==
    /\ Completed
    /\ \E i, j \in AcceptedIdx :
           /\ i < j
           /\ parse_hanja_line(InputLines[i]) # parse_hanja_line(InputLines[j])
    /\ \E i \in 1..Len(InputLines) :
           i \notin AcceptedIdx /\ \E j \in AcceptedIdx : i < j

\* C9: every record, committed or pending, has frequency 0.
C9_Frequency ==
    \A r \in UNION {fs[p].rows : p \in Paths} \cup txn : r.frequency = 0

C9_Witness ==
    /\ Completed
    /\ runs = MaxRuns
    /\ Cardinality(Artifact.rows) >= 2

\* C10 as stated: no step of a run that was given an input path changes the
\* file at that path.
C10_Original ==
    [][(pc \notin {"idle", "exited"} /\ input_path \in {"in", OutPath})
           => fs'[input_path] = fs[input_path]]_vars

\* C10 amended: no step of a run that was given an input path other than
\* the output path changes the file at that path, and only a run that
\* downloaded its input removes it.
C10_Amended ==
    [][/\ (pc \notin {"idle", "exited"} /\ input_path = "in")
            => fs'["in"] = fs["in"]
       /\ (pc = "finally" /\ fs'[input_path] # fs[input_path])
            => input_path = "tmp"]_vars

C10_Witness ==
    /\ pc = "exited"
    /\ input_path = "in"
    /\ exc = "UnicodeDecodeError"
    /\ fs["in"].kind = "text"
    /\ fs["in"].lines # <<>>

====
